---- MODULE Spec2Model ----
(***************************************************************************)
(* Abundance recovery of YACHT (src/recover_abundance.py): the script      *)
(* reads the weight w, loads the reference matrix A (K x N) and the sample *)
(* vector y, formulates the linear program                                 *)
(*     minimize   tau*sum(u) + (1-tau)*sum(v),   tau = 1/(w+1)              *)
(*     subject to x >= 0, u >= 0, v >= 0, u - v + A x = y                  *)
(* hands it to the LP solver, returns x.value and writes one CSV row per   *)
(* entry of the organism manifest.                                         *)
(*                                                                         *)
(* Numbers: A, y and the LP variables are integers (0/1 matrices of at     *)
(* most 2 x 2 are totally unimodular, so every vertex of the LP is an      *)
(* integer point).  The weight w is a rational num/den with den > 0, and   *)
(* tau is the rational the code computes from it.  The solver is the       *)
(* external collaborator: it returns SOME optimal point, which one is its  *)
(* own tie-breaking, so Solve chooses among all optimal points.            *)
(***************************************************************************)
EXTENDS Integers, Sequences, FiniteSets

VARIABLES pc, w, A, y, tau, rhs, formulated, solverCalls, status, sol,
          ret, abundance, organisms, header, rows, err

vars == <<pc, w, A, y, tau, rhs, formulated, solverCalls, status, sol,
          ret, abundance, organisms, header, rows, err>>

(* ------------------------------ bounds -------------------------------- *)

\* largest k-mer count in a sample, and largest value of an LP variable
MaxVal == 3

\* shapes of the reference matrix that are explored: K, N in Dims
Dims == {1, 2}

\* entries of the reference matrix: a k-mer is in an organism's sketch or not
Entries == {0, 1}

\* the LP variables range over Grid; the negative value is there so that the
\* constraints x >= 0, u >= 0, v >= 0 are what keeps them nonnegative
Grid == (-1)..MaxVal

\* weights given on the command line: -3/2, -1, -1/2, 0, 1/2, 1, 2
Weights == { [num |-> -3, den |-> 2], [num |-> -1, den |-> 1],
             [num |-> -1, den |-> 2], [num |-> 0, den |-> 1],
             [num |-> 1, den |-> 2],  [num |-> 1, den |-> 1],
             [num |-> 2, den |-> 1] }

\* names in the organism file, in file order
OrgNames == <<"org_a", "org_b", "org_c">>

(* ------------------------------ vectors ------------------------------- *)

RECURSIVE Sum(_)
Sum(s) == IF s = <<>> THEN 0 ELSE Head(s) + Sum(Tail(s))

\* a @ b for two vectors of the same length
Dot(a, b) == Sum([i \in 1..Len(a) |-> a[i] * b[i]])

\* A @ x
MatVec(M, x) == [k \in 1..Len(M) |-> Dot(M[k], x)]

\* np.shape(A)
Shape(M) == <<Len(M), Len(M[1])>>

Zeros(n) == [i \in 1..n |-> 0]

Matrices == UNION { [1..K -> [1..N -> Entries]] : K \in Dims, N \in Dims }

Samples == UNION { [1..L -> 0..MaxVal] : L \in Dims }

Manifests == { SubSeq(OrgNames, 1, L) : L \in 1..Len(OrgNames) }

(* ------------------------------ the LP -------------------------------- *)

\* w < 0 for the rational w = num/den (den > 0)
IsNegative(q) == q.num < 0

\* the complement w / (w + 1) in place of tau
TauComplement(q) == [num |-> q.num, den |-> q.num + q.den]

\* tau = 1 / (w + 1), defined when w + 1 # 0
Tau(q) == [num |-> q.den, den |-> q.num + q.den]

\* the coefficient of sum(u) is tau, the coefficient of sum(v) is 1 - tau
CoefU(t) == t

\* tau again in place of 1 - tau
CoefVIsTau(t) == t

CoefV(t) == [num |-> t.den - t.num, den |-> t.den]

\* the objective without its second term
ObjectiveOnlyU(t, p) == t.den * (CoefU(t).num * Sum(p.u))

\* tau*sum(u) + (1-tau)*sum(v), times tau.den^2 (a positive factor)
Objective(t, p) ==
    t.den * (CoefU(t).num * Sum(p.u) + CoefV(t).num * Sum(p.v))

NonNeg(s) == \A i \in 1..Len(s) : s[i] >= 0

\* the equality constraint with u and v exchanged: v - u + A x == b
ResidualUFlipped(M, b, x, v) ==
    [k \in 1..Len(M) |-> MatVec(M, x)[k] - b[k] + v[k]]

\* the equality constraint u - v + A x == b, solved for u
ResidualU(M, b, x, v) == [k \in 1..Len(M) |-> b[k] - MatVec(M, x)[k] + v[k]]

\* the constraint list without x >= 0, and without v >= 0
ConstraintsNoX(p) == NonNeg(p.u) /\ NonNeg(p.v)
ConstraintsNoV(p) == NonNeg(p.x) /\ NonNeg(p.u)

\* the inequality constraints of the problem
Constraints(p) == NonNeg(p.x) /\ NonNeg(p.u) /\ NonNeg(p.v)

\* the points of the grid G that satisfy the equality constraint
Candidates(M, b, G) ==
    { [x |-> xx, u |-> ResidualU(M, b, xx, vv), v |-> vv] :
        xx \in [1..Len(M[1]) -> G], vv \in [1..Len(M) -> G] }

Feasible(M, b, G) == { p \in Candidates(M, b, G) : Constraints(p) }

\* the LP is unbounded iff a direction of its recession cone has negative cost
Unbounded(M, t) ==
    \E d \in Feasible(M, Zeros(Len(M)), 0..Len(M[1])) : Objective(t, d) < 0

\* the optimal points of the LP
Optimal(M, b, t) ==
    LET F == Feasible(M, b, Grid)
        vals == { Objective(t, p) : p \in F }
        best == CHOOSE m \in vals : \A n \in vals : m <= n
    IN  { p \in F : Objective(t, p) = best }

NoPoint == [x |-> <<>>, u |-> <<>>, v |-> <<>>]

(* ---------------------------- the pipeline ---------------------------- *)

Init ==
    /\ pc = "main"
    /\ w = [num |-> 0, den |-> 1]
    /\ A = <<>>
    /\ y = <<>>
    /\ tau = <<>>
    /\ rhs = <<>>
    /\ formulated = FALSE
    /\ solverCalls = 0
    /\ status = "unsolved"
    /\ sol = NoPoint
    /\ ret = "pending"
    /\ abundance = <<>>
    /\ organisms = <<>>
    /\ header = FALSE
    /\ rows = <<>>
    /\ err = "none"

Raise(e) == pc' = "raised" /\ err' = e

\* __main__: the arguments are parsed, --w is any float
Main ==
    /\ pc = "main"
    /\ \E q \in Weights : w' = q
    /\ pc' = "load"
    /\ UNCHANGED <<A, y, tau, rhs, formulated, solverCalls, status, sol,
                   ret, abundance, organisms, header, rows, err>>

\* recover_abundance_from_files: the matrix and the sample vector are loaded
LoadInputs ==
    /\ pc = "load"
    /\ \E M \in Matrices, s \in Samples : A' = M /\ y' = s
    /\ pc' = "tau"
    /\ UNCHANGED <<w, tau, rhs, formulated, solverCalls, status, sol,
                   ret, abundance, organisms, header, rows, err>>

\* tau = 1 / (w + 1): a float division, by zero when w = -1
ComputeTau ==
    /\ pc = "tau"
    /\ IF w.num + w.den = 0
         THEN Raise("ZeroDivisionError") /\ UNCHANGED tau
         ELSE tau' = Tau(w) /\ pc' = "formulate" /\ UNCHANGED err
    /\ UNCHANGED <<w, A, y, rhs, formulated, solverCalls, status, sol,
                   ret, abundance, organisms, header, rows>>

\* a sample of the wrong length meets the modelling layer's shape rules: a
\* side of length 1 is a scalar and is promoted, or the shapes are rejected
Promotable == Len(y) # Len(A) /\ (Len(y) = 1 \/ Len(A) = 1)

\* the right-hand side of the equality constraint after promotion
Promote == IF Len(y) = 1 THEN [k \in 1..Len(A) |-> y[1]] ELSE <<y[1]>>

\* the objective and the constraints are built, cp.Problem is constructed
Formulate ==
    /\ pc = "formulate"
    /\ \/ /\ Len(y) = Len(A)
          /\ rhs' = y /\ formulated' = TRUE /\ pc' = "solve" /\ UNCHANGED err
       \/ /\ Promotable
          /\ rhs' = Promote /\ formulated' = TRUE /\ pc' = "solve"
          /\ UNCHANGED err
       \/ /\ Len(y) # Len(A)
          /\ Raise("ValueError") /\ UNCHANGED <<rhs, formulated>>
    /\ UNCHANGED <<w, A, y, tau, solverCalls, status, sol,
                   ret, abundance, organisms, header, rows>>

\* a promoted single row must equal every sample entry at once
Infeasible == Len(A) = 1 /\ \E k \in 1..Len(y) : y[k] # y[1]

\* prob.solve(): the solver's status, and an optimal point when there is one
Solve ==
    /\ pc = "solve"
    /\ solverCalls' = solverCalls + 1
    /\ IF Infeasible
         THEN status' = "infeasible" /\ sol' = NoPoint
         ELSE IF Unbounded(A, tau)
           THEN status' = "unbounded" /\ sol' = NoPoint
           ELSE status' = "optimal" /\ sol' \in Optimal(A, rhs, tau)
    /\ pc' = "return"
    /\ UNCHANGED <<w, A, y, tau, rhs, formulated, ret, abundance,
                   organisms, header, rows, err>>

\* return x.value: None unless the solve was optimal
Return ==
    /\ pc = "return"
    /\ IF status = "optimal"
         THEN ret' = "array" /\ abundance' = sol.x
         ELSE ret' = "None" /\ abundance' = <<>>
    /\ pc' = "support"
    /\ UNCHANGED <<w, A, y, tau, rhs, formulated, solverCalls, status, sol,
                   organisms, header, rows, err>>

\* support = np.nonzero(abundance): of None it is empty or an error,
\* depending on the numpy release
Support ==
    /\ pc = "support"
    /\ \/ pc' = "load_orgs" /\ UNCHANGED err
       \/ ret = "None" /\ Raise("ValueError")
    /\ UNCHANGED <<w, A, y, tau, rhs, formulated, solverCalls, status, sol,
                   ret, abundance, organisms, header, rows>>

\* organisms = utils.load_processed_organisms(processed_org_file)
LoadOrganisms ==
    /\ pc = "load_orgs"
    /\ \E m \in Manifests : organisms' = m
    /\ pc' = "open"
    /\ UNCHANGED <<w, A, y, tau, rhs, formulated, solverCalls, status, sol,
                   ret, abundance, header, rows, err>>

\* write_abundance_results: the file is opened and the header row written
WriterOpen ==
    /\ pc = "open"
    /\ header' = TRUE
    /\ pc' = "rows"
    /\ UNCHANGED <<w, A, y, tau, rhs, formulated, solverCalls, status, sol,
                   ret, abundance, organisms, rows, err>>

\* one pass of the loop: writer.writerow([org, abundance_vector[i]])
WriteRow ==
    /\ pc = "rows"
    /\ Len(rows) < Len(organisms)
    /\ LET i == Len(rows) + 1 IN
         IF ret = "None"
           THEN Raise("TypeError") /\ UNCHANGED rows
           ELSE IF i > Len(abundance)
             THEN Raise("IndexError") /\ UNCHANGED rows
             ELSE /\ rows' = Append(rows, <<organisms[i], abundance[i]>>)
                  /\ UNCHANGED <<pc, err>>
    /\ UNCHANGED <<w, A, y, tau, rhs, formulated, solverCalls, status, sol,
                   ret, abundance, organisms, header>>

\* the loop is exhausted: f.close(), and the estimate is returned
WriterClose ==
    /\ pc = "rows"
    /\ Len(rows) = Len(organisms)
    /\ pc' = "done"
    /\ UNCHANGED <<w, A, y, tau, rhs, formulated, solverCalls, status, sol,
                   ret, abundance, organisms, header, rows, err>>

Next ==
    \/ Main
    \/ LoadInputs
    \/ ComputeTau
    \/ Formulate
    \/ Solve
    \/ Return
    \/ Support
    \/ LoadOrganisms
    \/ WriterOpen
    \/ WriteRow
    \/ WriterClose

Spec == Init /\ [][Next]_vars

(* ----------------------- helpers of the properties -------------------- *)

Column(M, j) == [k \in 1..Len(M) |-> M[k][j]]

Unit(n, j) == [i \in 1..n |-> IF i = j THEN 1 ELSE 0]

\* p < q and p <= q for rationals with positive denominators
RatLess(p, q) == p.num * q.den < q.num * p.den
RatLeq(p, q) == p.num * q.den <= q.num * p.den

\* the weights larger than w
Larger(q) == { q2 \in Weights : RatLess(q, q2) }

\* r = y - A x, row by row
Residual(M, b, x) == [k \in 1..Len(M) |-> b[k] - MatVec(M, x)[k]]

PosPart(n) == IF n > 0 THEN n ELSE 0
NegPart(n) == IF n < 0 THEN -n ELSE 0

\* the dimensions of the loaded inputs disagree
SampleMismatch == A # <<>> /\ Len(y) # Len(A)
ManifestMismatch == organisms # <<>> /\ Len(organisms) # Len(A[1])

\* the solve was optimal on inputs that satisfy the input constraints
ValidSolve == status = "optimal" /\ ~IsNegative(w) /\ Len(y) = Len(A)

(* ------------------------------- C1 ----------------------------------- *)

\* C1 (as claimed): whenever the sample length differs from K or the manifest
\* length differs from N, the LP is never formulated, the solver is never
\* invoked, no estimate is returned, nothing is written and the run does not
\* complete.  (Stated for w >= 0, so that the weight plays no part.)
C1_MismatchRejectedBeforeSolve ==
    (~IsNegative(w) /\ (SampleMismatch \/ ManifestMismatch)) =>
        /\ ~formulated
        /\ solverCalls = 0
        /\ ret = "pending"
        /\ ~header
        /\ rows = <<>>
        /\ pc # "done"

(* ------------------------------- C2 ----------------------------------- *)

\* C2 (as claimed): for a negative w, tau is never computed, no LP is solved,
\* no estimate is returned, and the failure is an InvalidParameterError.
C2_NegativeWeightRejected ==
    (pc # "main" /\ IsNegative(w)) =>
        /\ tau = <<>>
        /\ solverCalls = 0
        /\ ret = "pending"
        /\ (pc = "raised" => err = "InvalidParameterError")

(* ------------------------------- C3 ----------------------------------- *)

\* C3 (as claimed): when the solver does not reach an optimal solution the
\* caller receives nothing (not even a null), the Result Writer is not
\* entered, and the failure is an OptimizationError.  (Stated for inputs whose
\* shapes agree, so that the shape rules play no part.)
C3_FailedSolveRaises ==
    (Len(y) = Len(A) /\ status \in {"infeasible", "unbounded"}) =>
        /\ ret = "pending"
        /\ ~header
        /\ pc \in {"return", "raised"}
        /\ (pc = "raised" => err = "OptimizationError")

(* ------------------------------- C4 ----------------------------------- *)

NoZeroColumn(M) == \A j \in 1..Len(M[1]) : Column(M, j) # Zeros(Len(M))

\* C4 (as claimed): for every w >= 0 and every A, if y is all-zero then the
\* optimal x is the all-zero vector.
C4_ZeroSampleAnyWeight ==
    (ValidSolve /\ y = Zeros(Len(A))) => sol.x = Zeros(Len(A[1]))

\* C4 (amended): for every w > 0 and every A without an all-zero column, if
\* y is all-zero then every optimal x is the all-zero vector.
C4_ZeroSamplePositiveWeight ==
    (ValidSolve /\ y = Zeros(Len(A)) /\ w.num > 0 /\ NoZeroColumn(A)) =>
        sol.x = Zeros(Len(A[1]))

C4_Witness ==
    /\ ValidSolve /\ y = Zeros(Len(A)) /\ w.num > 0 /\ NoZeroColumn(A)
    /\ Shape(A) = <<2, 2>>
    /\ sol.x = Zeros(2)

(* ------------------------------- C5 ----------------------------------- *)

\* exactly one column of A equals y, and it is column j
OnlyMatch(j) ==
    /\ Column(A, j) = y
    /\ \A i \in 1..Len(A[1]) : Column(A, i) = y => i = j

Noiseless == ValidSolve /\ w.num = 0 /\ \E j \in 1..Len(A[1]) : OnlyMatch(j)

\* the point x = e_j, u = v = 0
Recovered(j) ==
    [x |-> Unit(Len(A[1]), j), u |-> Zeros(Len(A)), v |-> Zeros(Len(A))]

\* C5 (as claimed): when exactly one column c of A equals y, the solve with
\* w = 0 returns x = e_c with u = v = 0.  (Stated for a nonzero sample.)
C5_NoiselessUnique ==
    (Noiseless /\ y # Zeros(Len(A))) => \E j \in 1..Len(A[1]) : OnlyMatch(j) /\ sol = Recovered(j)

\* C5 (amended): when exactly one column c of A equals y and w = 0, the point
\* x = e_c, u = v = 0 is one of the optimal points (looked up in the optimal
\* set when the solver returns), and every optimal point has u = 0.
C5_NoiselessAmongOptima ==
    Noiseless =>
        /\ pc = "return" =>
              \E j \in 1..Len(A[1]) :
                 OnlyMatch(j) /\ Recovered(j) \in Optimal(A, rhs, tau)
        /\ sol.u = Zeros(Len(A))

C5_Witness ==
    /\ Noiseless
    /\ y # Zeros(Len(A))
    /\ Len(A[1]) = 2
    /\ \E j \in 1..Len(A[1]) : OnlyMatch(j) /\ sol = Recovered(j)

(* ------------------------------- C6 ----------------------------------- *)

Ambiguous == ValidSolve /\ A = <<(<<1, 1>>)>> /\ y = <<3>>

\* C6 (as claimed): for A = [[1,1]], y = [3] and every w >= 0, every optimal
\* solution has x1, x2 >= 0 and x1 + x2 = 3.
C6_AmbiguousAnyWeight ==
    Ambiguous => sol.x[1] >= 0 /\ sol.x[2] >= 0 /\ sol.x[1] + sol.x[2] = 3

\* C6 (amended): the same for every w > 0.
C6_AmbiguousPositiveWeight ==
    (Ambiguous /\ w.num > 0) =>
        sol.x[1] >= 0 /\ sol.x[2] >= 0 /\ sol.x[1] + sol.x[2] = 3

C6_Witness == Ambiguous /\ w.num > 0 /\ sol.x = <<1, 2>>

(* ------------------------------- C7 ----------------------------------- *)

\* C7: every estimate returned for a w >= 0 has all entries >= 0, and it is
\* the solver's x itself, not a clamped copy.
C7_EstimateNonNegative ==
    (ret = "array" /\ ~IsNegative(w)) =>
        NonNeg(abundance) /\ abundance = sol.x

C7_Witness ==
    /\ ret = "array" /\ ~IsNegative(w)
    /\ Len(abundance) = 2
    /\ abundance[1] = 0 /\ abundance[2] > 0

(* ------------------------------- C8 ----------------------------------- *)

\* C8 (as claimed): the finished table has exactly N data rows, row i pairing
\* the i-th manifest entry with the i-th entry of the estimate.  (Stated for
\* a valid solve, so that only the writer and its caller play a part.)
C8_OneRowPerOrganism ==
    (pc = "done" /\ ValidSolve) =>
        /\ Len(rows) = Len(A[1])
        /\ \A i \in 1..Len(rows) : rows[i] = <<organisms[i], abundance[i]>>

(* ------------------------------- C9 ----------------------------------- *)

TauKnown == tau # <<>> /\ ~IsNegative(w)

\* C9 (as claimed): for 0 <= w1 < w2 the coefficient on u does not decrease
\* and the coefficient on v does not increase.
C9_LargerWeightPenalizesUMore ==
    TauKnown =>
        \A q \in Larger(w) :
            /\ RatLeq(CoefU(tau), CoefU(Tau(q)))
            /\ RatLeq(CoefV(Tau(q)), CoefV(tau))

\* C9 (amended): for 0 <= w1 < w2 the coefficient on u decreases and the
\* coefficient on v increases: a larger w penalizes u less and v more.
C9_LargerWeightPenalizesVMore ==
    TauKnown =>
        \A q \in Larger(w) :
            /\ RatLess(CoefU(Tau(q)), CoefU(tau))
            /\ RatLess(CoefV(tau), CoefV(Tau(q)))

C9_Witness ==
    /\ TauKnown
    /\ w = [num |-> 1, den |-> 2]
    /\ tau = [num |-> 2, den |-> 3]
    /\ Larger(w) # {}

(* ------------------------------- C10 ---------------------------------- *)

InteriorTau == ValidSolve /\ w.num > 0

\* C10 (as claimed): r = y - A x equals v - u in every row, and at an optimum
\* with 0 < tau < 1, u is the negative part of r and v its positive part.
C10_ResidualIsVMinusU ==
    ValidSolve =>
        LET r == Residual(A, rhs, sol.x) IN
        /\ \A k \in 1..Len(A) : r[k] = sol.v[k] - sol.u[k]
        /\ w.num > 0 =>
             \A k \in 1..Len(A) :
                sol.u[k] = NegPart(r[k]) /\ sol.v[k] = PosPart(r[k])

\* C10 (amended): r = y - A x equals u - v in every row of every feasible
\* point, and at an optimum with 0 < tau < 1, u is the positive part of r
\* (unexplained sample signal) and v its negative part (over-prediction).
C10_ResidualIsUMinusV ==
    /\ (pc = "solve" /\ Len(y) = Len(A)) =>
          \A p \in Feasible(A, rhs, Grid) :
             \A k \in 1..Len(A) :
                Residual(A, rhs, p.x)[k] = p.u[k] - p.v[k]
    /\ ValidSolve =>
          LET r == Residual(A, rhs, sol.x) IN
          /\ \A k \in 1..Len(A) : r[k] = sol.u[k] - sol.v[k]
          /\ w.num > 0 =>
               \A k \in 1..Len(A) :
                  sol.u[k] = PosPart(r[k]) /\ sol.v[k] = NegPart(r[k])

C10_Witness ==
    /\ InteriorTau
    /\ Len(A) = 2
    /\ Residual(A, rhs, sol.x)[1] > 0
    /\ Residual(A, rhs, sol.x)[2] < 0
    /\ sol.u[1] > 0 /\ sol.v[2] > 0

====
